---- MODULE Spec2Model ----
(***************************************************************************)
(* Model of query_tool.py: a command-line tool that exports the saved      *)
(* queries of an asset type to JSON files and imports them back.           *)
(*                                                                         *)
(* Strings that the code inspects character by character (query names,     *)
(* name prefixes) are sequences of one-character strings.  The remote      *)
(* service and the file system are the persistent state; everything else   *)
(* is the state of one invocation of cli().                                *)
(***************************************************************************)
EXTENDS Integers, Sequences, FiniteSets, TLC

VARIABLES
    remote,          \* asset type -> sequence of saved queries held by the service
    outfile,         \* content of <export_path>/<export_prefix>.json, or NoFile
    outdir,          \* files of the directory <export_path>/<export_prefix>/
    pc,              \* position of the running invocation
    opts,            \* the parsed command line
    tags,            \* cli(): the tag list after splitting the CSV
    calls,           \* network calls made by this invocation, in order
    sqs,             \* do_export: the saved queries left after filtering
    sqs_to_add,      \* do_import: the candidates
    existing_names,  \* do_import: names fetched once before the loop
    idx,             \* index of the next element of the running for loop
    msgs,            \* lines written with click.secho, in order
    created,         \* data passed to saved_query._add, in order
    writes,          \* per-file export: one entry per path_write call
    exit_code,       \* process exit status once pc = "done"
    crashed,         \* uncaught exception that ended the process, or "none"
    phase,           \* "first" or "second" invocation of a session
    prev             \* summary of the first invocation of a session

vars == <<remote, outfile, outdir, pc, opts, tags, calls, sqs, sqs_to_add,
          existing_names, idx, msgs, created, writes, exit_code, crashed,
          phase, prev>>

(***************************************************************************)
(* Bounds                                                                  *)
(***************************************************************************)
\* longest saved-query collection the service starts with
MaxSqs == 2
\* random.randint(0, 999999) is drawn from 0..RandMax
RandMax == 1

(***************************************************************************)
(* Data                                                                    *)
(***************************************************************************)
Range(s) == {s[i] : i \in 1..Len(s)}

FIELDS_TO_STRIP ==
    {"archived", "date_fetched", "last_updated", "updated_by", "user_id", "uuid"}

AssetTypes == {"users", "devices"}

\* characters for which str.isalnum() is true, among those the model uses
Alnum == {"A", "X", "a", "x", "B"}

Q1 == [name |-> <<"A", "X">>, tags |-> <<"prod">>, uuid |-> "u1", last_updated |-> "t1"]
Q2 == [name |-> <<"A", "/", "X">>, tags |-> <<"eu", "dev">>, uuid |-> "u2", archived |-> "no"]
Q3 == [name |-> <<"a", "x">>, view |-> "v3", user_id |-> "w3"]
Q4 == [name |-> <<"B", "-">>, tags |-> <<"qa">>, date_fetched |-> "d4", updated_by |-> "w4"]

Queries == {Q1, Q2, Q3, Q4}

NamesOf(s) == [i \in 1..Len(s) |-> s[i].name]

UniqueNames(s) == \A i, j \in 1..Len(s) : s[i].name = s[j].name => i = j

RECURSIVE SeqsUpTo(_, _)
SeqsUpTo(S, n) ==
    IF n = 0 THEN {<<>>}
    ELSE LET shorter == SeqsUpTo(S, n - 1)
         IN  shorter \cup {Append(s, x) : s \in {t \in shorter : Len(t) = n - 1}, x \in S}

Collections == {s \in SeqsUpTo(Queries, MaxSqs) : UniqueNames(s)}

(***************************************************************************)
(* JSON files.  A JSON text is an object (a sequence of key/value members) *)
(* or an array of objects; a loaded value is a dict, a list or a str.      *)
(***************************************************************************)
NoFile == [kind |-> "absent"]

KeyOrder == <<"name", "tags", "view", "archived", "date_fetched", "last_updated",
              "updated_by", "user_id", "uuid">>

Members(d) ==
    LET keys == SelectSeq(KeyOrder, LAMBDA k : k \in DOMAIN d)
    IN  [i \in 1..Len(keys) |-> <<keys[i], d[keys[i]]>>]

FromMembers(m) ==
    [k \in {m[i][1] : i \in 1..Len(m)} |->
        LET i == CHOOSE j \in 1..Len(m) : m[j][1] = k IN m[i][2]]

PyDict(d) == [t |-> "dict", v |-> d]
PyList(l) == [t |-> "list", v |-> l]
PyStr(s) == [t |-> "str", v |-> s]

\* json dump of one saved query (a dict) or of a list of saved queries
JsonDump(py) ==
    IF py.t = "dict"
    THEN [kind |-> "object", members |-> Members(py.v)]
    ELSE [kind |-> "array", items |-> [i \in 1..Len(py.v) |-> Members(py.v[i])]]

JsonLoad(text) ==
    IF text.kind = "object"
    THEN PyDict(FromMembers(text.members))
    ELSE PyList([i \in 1..Len(text.items) |-> FromMembers(text.items[i])])

(***************************************************************************)
(* Files of the export directory.  A per-file export names a file after    *)
(* the safe name of the query, with "_<rand>" appended on a collision.     *)
(***************************************************************************)
FileName(stem, suffixed, rand, ext) ==
    [stem |-> stem, suffixed |-> suffixed, rand |-> rand, ext |-> ext]

PlainName(safe_name) == FileName(safe_name, FALSE, 0, "json")

RandName(safe_name, rand) == FileName(safe_name, TRUE, rand, "json")

RawText == [kind |-> "raw"]

EmptyDir == [f \in {} |-> NoFile]

\* left behind by an earlier per-file export of Q1 and Q2, plus a text file
DirOfObjects ==
    (PlainName(<<"A", "X">>) :> JsonDump(PyDict(Q1)))
    @@ (RandName(<<"A", "X">>, 0) :> JsonDump(PyDict(Q2)))
    @@ (FileName(<<"a">>, FALSE, 0, "txt") :> RawText)

\* a directory that holds a single-file style export next to an object file
DirOfMixed ==
    (PlainName(<<"B", "-">>) :> JsonDump(PyList(<<Q4>>)))
    @@ (PlainName(<<"a", "x">>) :> JsonDump(PyDict(Q3)))

InitDirs == {EmptyDir, DirOfObjects, DirOfMixed}

InitFiles == {NoFile, JsonDump(PyList(<<Q1, Q3, Q3>>)), JsonDump(PyDict(Q4))}

(***************************************************************************)
(* Command line                                                            *)
(***************************************************************************)
Token(text) == [text |-> text, padded |-> FALSE]
Padded(text) == [text |-> text, padded |-> TRUE]

\* the --tags value, already split at the commas
TagCsvs == {<<>>, <<Token("qa")>>, <<Token("prod"), Token(""), Padded("eu")>>}

NamePrefixes == {<<>>, <<"A">>}

ImportPaths == {"none", "file", "dir", "txt", "fifo"}

Options(export, asset_type, creds, name_prefix, tag_csv, import_path, single_file) ==
    [export |-> export, asset_type |-> asset_type, creds |-> creds,
     name_prefix |-> name_prefix, tags |-> tag_csv, import_path |-> import_path,
     single_file |-> single_file]

DefaultOptions == Options("missing", "missing", TRUE, <<>>, <<>>, "none", TRUE)

ExportOptions ==
    {Options("export", a, TRUE, np, t, "none", sf) :
        a \in AssetTypes, np \in NamePrefixes, t \in TagCsvs, sf \in BOOLEAN}

ImportOptions ==
    {Options("import", a, TRUE, <<>>, <<>>, ip, TRUE) : a \in AssetTypes, ip \in ImportPaths}

IncompleteOptions ==
    {Options("missing", "devices", TRUE, <<>>, <<>>, "none", TRUE),
     Options("export", "missing", TRUE, <<>>, <<>>, "none", TRUE),
     Options("import", "devices", FALSE, <<>>, <<>>, "dir", TRUE)}

CommandLines == ExportOptions \cup ImportOptions \cup IncompleteOptions

(***************************************************************************)
(* State of one invocation                                                 *)
(***************************************************************************)
NoPrev == [ran |-> FALSE]

Init ==
    /\ remote \in {[users |-> <<>>, devices |-> c] : c \in Collections}
    /\ outfile \in InitFiles
    /\ outdir \in InitDirs
    /\ pc = "parse"
    /\ opts = DefaultOptions
    /\ tags = <<>>
    /\ calls = <<>>
    /\ sqs = <<>>
    /\ sqs_to_add = <<>>
    /\ existing_names = <<>>
    /\ idx = 1
    /\ msgs = <<>>
    /\ created = <<>>
    /\ writes = <<>>
    /\ exit_code = 0
    /\ crashed = "none"
    /\ phase = "first"
    /\ prev = NoPrev

\* sys.exit(code), or the return of cli()
Exit(code) ==
    /\ pc' = "done"
    /\ exit_code' = code

\* an exception nobody catches ends the interpreter with status 1
Raise(exception) ==
    /\ pc' = "done"
    /\ exit_code' = 1
    /\ crashed' = exception

Secho(line) == msgs' = Append(msgs, line)

(***************************************************************************)
(* cli(): option parsing by click, then the body                           *)
(***************************************************************************)
\* click ends the process before the body of cli() runs: a required option
\* is missing, a prompt for a credential is aborted, or --import-path names
\* no existing path (click.Path(exists=True))
ClickRejects(o) ==
    \/ o.export = "missing"
    \/ o.asset_type = "missing"
    \/ ~o.creds
    \/ o.import_path = "file" /\ outfile = NoFile

ParseArgs ==
    /\ pc = "parse"
    /\ \E o \in CommandLines :
        /\ opts' = o
        /\ IF ClickRejects(o)
           THEN /\ Exit(IF o.creds THEN 2 ELSE 1)
                /\ Secho([kind |-> "usage"])
           ELSE /\ pc' = "cli"
                /\ UNCHANGED <<exit_code, msgs>>
    /\ UNCHANGED <<remote, outfile, outdir, tags, calls, sqs, sqs_to_add,
                   existing_names, idx, created, writes, crashed, phase, prev>>

\* [x.strip() for x in tags.strip().split(",") if x.strip()]
SplitTags(csv) ==
    LET kept == SelectSeq(csv, LAMBDA tok : tok.text # "")
    IN  [i \in 1..Len(kept) |-> kept[i].text]

Cli ==
    /\ pc = "cli"
    /\ tags' = SplitTags(opts.tags)
    /\ calls' = Append(calls, "connect")
    /\ pc' = IF opts.export = "export" THEN "do_export" ELSE "do_import"
    /\ UNCHANGED <<remote, outfile, outdir, opts, sqs, sqs_to_add, existing_names,
                   idx, msgs, created, writes, exit_code, crashed, phase, prev>>

(***************************************************************************)
(* do_export()                                                             *)
(***************************************************************************)
StartsWith(name, prefix) ==
    /\ Len(prefix) <= Len(name)
    /\ SubSeq(name, 1, Len(prefix)) = prefix

TagsOf(sq) == IF "tags" \in DOMAIN sq THEN Range(sq.tags) ELSE {}

\* faulty variant: a query must carry every requested tag
HasAllTags(sq, wanted) == \A tag \in Range(wanted) : tag \in TagsOf(sq)

HasAnyTag(sq, wanted) == \E tag \in Range(wanted) : tag \in TagsOf(sq)

FilterByPrefix(all, name_prefix) ==
    IF name_prefix # <<>>
    THEN SelectSeq(all, LAMBDA sq : StartsWith(sq.name, name_prefix))
    ELSE all

FilterByTags(list, wanted) ==
    IF wanted # <<>>
    THEN SelectSeq(list, LAMBDA sq : HasAnyTag(sq, wanted))
    ELSE list

\* the tags the "known tags" listing is built from
KnownTags(list) == UNION {TagsOf(list[i]) : i \in 1..Len(list)}

DoExport ==
    /\ pc = "do_export"
    /\ calls' = Append(calls, "get")
    /\ LET all == remote[opts.asset_type]
           by_prefix == FilterByPrefix(all, opts.name_prefix)
           by_tags == FilterByTags(by_prefix, tags)
       IN  IF opts.name_prefix # <<>> /\ by_prefix = <<>>
           THEN /\ Secho([kind |-> "no_prefix", prefix |-> opts.name_prefix,
                          known_names |-> NamesOf(all)])
                /\ Exit(1)
                /\ UNCHANGED <<sqs>>
           ELSE IF tags # <<>> /\ by_tags = <<>>
           THEN /\ Secho([kind |-> "no_tags", tags |-> tags,
                          known_tags |-> KnownTags(by_prefix)])
                /\ Exit(1)
                /\ UNCHANGED <<sqs>>
           ELSE /\ sqs' = by_tags
                /\ pc' = IF opts.single_file THEN "write_single" ELSE "write_each"
                /\ UNCHANGED <<msgs, exit_code>>
    /\ UNCHANGED <<remote, outfile, outdir, opts, tags, sqs_to_add, existing_names,
                   idx, created, writes, crashed, phase, prev>>

\* One call of axonapi.tools.path_write(obj, data, is_json=True).  The
\* library is not part of the repository: when the file is already there it
\* either replaces it or raises ToolsError, and both outcomes are kept.
WriteNote(file, existed, written, data) ==
    [file |-> file, existed |-> existed, written |-> written, data |-> data]

WriteSingle ==
    /\ pc = "write_single"
    /\ LET data == JsonDump(PyList(sqs))
       IN  \/ /\ outfile' = data
              /\ writes' = Append(writes, WriteNote("single", outfile # NoFile, TRUE, data))
              /\ Secho([kind |-> "wrote_all", count |-> Len(sqs)])
              /\ Exit(0)
              /\ UNCHANGED crashed
           \/ /\ outfile # NoFile
              /\ writes' = Append(writes, WriteNote("single", TRUE, FALSE, data))
              /\ Raise("ToolsError")
              /\ UNCHANGED <<outfile, msgs>>
    /\ UNCHANGED <<remote, outdir, opts, tags, calls, sqs, sqs_to_add, existing_names,
                   idx, created, phase, prev>>

\* "".join([x for x in name if x.isalnum() or x in [" ", "-"]])
SafeName(name) == SelectSeq(name, LAMBDA x : x \in Alnum \/ x \in {" ", "-"})

\* the path one record of a per-file export is written to
DestPath(safe_name, rand, dir) ==
    IF PlainName(safe_name) \in DOMAIN dir
    THEN RandName(safe_name, rand)
    ELSE PlainName(safe_name)

WriteEach ==
    /\ pc = "write_each"
    /\ idx <= Len(sqs)
    /\ \E rand \in 0..RandMax :
        LET sq == sqs[idx]
            full_dest_path == DestPath(SafeName(sq.name), rand, outdir)
            existed == full_dest_path \in DOMAIN outdir
            data == JsonDump(PyDict(sq))
        IN  \/ /\ outdir' = [f \in DOMAIN outdir \cup {full_dest_path} |->
                                IF f = full_dest_path THEN data ELSE outdir[f]]
               /\ writes' = Append(writes, WriteNote(full_dest_path, existed, TRUE, data))
               /\ Secho([kind |-> "wrote", file |-> full_dest_path])
               /\ idx' = idx + 1
               /\ UNCHANGED <<pc, exit_code, crashed>>
            \/ /\ existed
               /\ writes' = Append(writes, WriteNote(full_dest_path, TRUE, FALSE, data))
               /\ Raise("ToolsError")
               /\ UNCHANGED <<outdir, msgs, idx>>
    /\ UNCHANGED <<remote, outfile, opts, tags, calls, sqs, sqs_to_add, existing_names,
                   created, phase, prev>>

WriteEachEnd ==
    /\ pc = "write_each"
    /\ idx > Len(sqs)
    /\ Exit(0)
    /\ UNCHANGED <<remote, outfile, outdir, opts, tags, calls, sqs, sqs_to_add,
                   existing_names, idx, msgs, created, writes, crashed, phase, prev>>

(***************************************************************************)
(* do_import()                                                             *)
(***************************************************************************)
\* sqs_to_add += content: a list is extended by the elements of a list and
\* by the keys of a dict
Extend(list, content) ==
    IF content.t = "list"
    THEN list \o [i \in 1..Len(content.v) |-> PyDict(content.v[i])]
    ELSE LET keys == SelectSeq(KeyOrder, LAMBDA k : k \in DOMAIN content.v)
         IN  list \o [i \in 1..Len(keys) |-> PyStr(keys[i])]

\* the orders in which Path.iterdir() may list the files
Listings(files) ==
    {order \in [1..Cardinality(files) -> files] : Range(order) = files}

\* sqs_to_add.append(content) for every file, in listing order
AppendAll(order, dir) == [i \in 1..Len(order) |-> JsonLoad(dir[order[i]])]

JsonFiles(dir) == {f \in DOMAIN dir : f.ext = "json"}

\* lines 188-214: the candidates read from the import path; the outcome is
\* either an error line or the candidate list
ReadOutcomes(import_path, file, dir) ==
    IF import_path = "none"
    THEN {[error |-> "import path must be supplied!"]}
    ELSE IF import_path = "file"
    THEN {[error |-> "", sqs_to_add |-> Extend(<<>>, JsonLoad(file))]}
    ELSE IF import_path = "txt"
    THEN {[error |-> "not a json file!"]}
    ELSE IF import_path = "dir"
    THEN IF JsonFiles(dir) = {}
         THEN {[error |-> "no json files found!"]}
         ELSE {[error |-> "", sqs_to_add |-> AppendAll(order, dir)] :
                  order \in Listings(JsonFiles(dir))}
    ELSE {[error |-> "Valid file or directory not specified"]}

DoImport ==
    /\ pc = "do_import"
    /\ \E read \in ReadOutcomes(opts.import_path, outfile, outdir) :
        IF read.error # ""
        THEN /\ Secho([kind |-> "error", text |-> read.error])
             /\ Exit(1)
             /\ UNCHANGED <<sqs_to_add, existing_names, calls>>
        ELSE /\ sqs_to_add' = read.sqs_to_add
             /\ calls' = Append(calls, "get")
             /\ existing_names' = NamesOf(remote[opts.asset_type])
             /\ pc' = "import_loop"
             /\ UNCHANGED <<msgs, exit_code>>
    /\ UNCHANGED <<remote, outfile, outdir, opts, tags, sqs, idx, created, writes,
                   crashed, phase, prev>>

\* faulty variant: the identifier of the exporting service is left in
StripKeepsUuid(sq) == [k \in DOMAIN sq \ (FIELDS_TO_STRIP \ {"uuid"}) |-> sq[k]]

\* [sq_to_add.pop(x, None) for x in FIELDS_TO_STRIP]
Strip(sq) == [k \in DOMAIN sq \ FIELDS_TO_STRIP |-> sq[k]]

\* the service stores what it is given under an identifier of its own
Stored(data) ==
    [k \in DOMAIN data \cup {"uuid"} |-> IF k = "uuid" THEN "new" ELSE data[k]]

\* faulty variant: only the first existing name is looked at
AlreadyExistsFirstOnly(name, names) == names # <<>> /\ name = names[1]

\* name in existing_names (line 222)
AlreadyExists(name, names) == name \in Range(names)

ImportOne ==
    /\ pc = "import_loop"
    /\ idx <= Len(sqs_to_add)
    /\ LET sq_to_add == sqs_to_add[idx]
       IN  IF sq_to_add.t # "dict"
           THEN /\ Raise("TypeError")
                /\ UNCHANGED <<remote, calls, idx, msgs, created>>
           ELSE LET name == sq_to_add.v.name
                    data == Strip(sq_to_add.v)
                IN  IF AlreadyExists(name, existing_names)
                    THEN /\ Secho([kind |-> "skipped", name |-> name])
                         /\ idx' = idx + 1
                         /\ UNCHANGED <<remote, calls, created, pc, exit_code, crashed>>
                    ELSE /\ created' = Append(created, data)
                         /\ calls' = Append(calls, "add")
                         /\ remote' = [remote EXCEPT
                                          ![opts.asset_type] = Append(@, Stored(data))]
                         /\ Secho([kind |-> "created", name |-> name])
                         /\ idx' = idx + 1
                         /\ UNCHANGED <<pc, exit_code, crashed>>
    /\ UNCHANGED <<outfile, outdir, opts, tags, sqs, sqs_to_add, existing_names,
                   writes, phase, prev>>

ImportEnd ==
    /\ pc = "import_loop"
    /\ idx > Len(sqs_to_add)
    /\ Exit(0)
    /\ UNCHANGED <<remote, outfile, outdir, opts, tags, calls, sqs, sqs_to_add,
                   existing_names, idx, msgs, created, writes, crashed, phase, prev>>

(***************************************************************************)
(* Specifications                                                          *)
(***************************************************************************)
Next ==
    \/ ParseArgs
    \/ Cli
    \/ DoExport
    \/ WriteSingle
    \/ WriteEach
    \/ WriteEachEnd
    \/ DoImport
    \/ ImportOne
    \/ ImportEnd

\* one invocation of the tool
Spec == Init /\ [][Next]_vars

(***************************************************************************)
(* A session: the tool is invoked, ends, and is invoked once more on the   *)
(* service and the files the first invocation left.                        *)
(***************************************************************************)
Summary ==
    [ran |-> TRUE, opts |-> opts, exit_code |-> exit_code, crashed |-> crashed,
     sqs |-> sqs, sqs_to_add |-> sqs_to_add]

InvokeAgain ==
    /\ pc = "done"
    /\ phase = "first"
    /\ phase' = "second"
    /\ prev' = Summary
    /\ pc' = "parse"
    /\ opts' = DefaultOptions
    /\ tags' = <<>>
    /\ calls' = <<>>
    /\ sqs' = <<>>
    /\ sqs_to_add' = <<>>
    /\ existing_names' = <<>>
    /\ idx' = 1
    /\ msgs' = <<>>
    /\ created' = <<>>
    /\ writes' = <<>>
    /\ exit_code' = 0
    /\ crashed' = "none"
    /\ UNCHANGED <<remote, outfile, outdir>>

Next2 ==
    \/ Next
    \/ InvokeAgain

\* a session starts next to the files an earlier per-file export left
Init2 ==
    /\ Init
    /\ outdir = DirOfObjects

\* two invocations in a row
Spec2 == Init2 /\ [][Next2]_vars

(***************************************************************************)
(* Vocabulary of the properties                                            *)
(***************************************************************************)
IsExport == opts.export = "export"
IsImport == opts.export = "import"
PerFileExport == IsExport /\ ~opts.single_file
SingleFileExport == IsExport /\ opts.single_file

\* the invocation ended on a filter that matched nothing
FilterMiss == \E i \in 1..Len(msgs) : msgs[i].kind \in {"no_prefix", "no_tags"}

\* do_import has built its candidates and fetched the existing names
InImportLoop == IsImport /\ "get" \in Range(calls)

\* the saved queries a JSON text holds
RecordsIn(text) ==
    IF text.kind = "object"
    THEN <<FromMembers(text.members)>>
    ELSE [i \in 1..Len(text.items) |-> FromMembers(text.items[i])]

RECURSIVE Flatten(_)
Flatten(lists) == IF lists = <<>> THEN <<>> ELSE Head(lists) \o Flatten(Tail(lists))

AllDicts(list) == \A i \in 1..Len(list) : list[i].t = "dict"

Unwrap(list) == [i \in 1..Len(list) |-> list[i].v]


(***************************************************************************)
(* Per-file export and the files already there                             *)
(***************************************************************************)
\* C1: in a per-file export every record is written, and the file it is
\* written to did not exist at the moment of the write: no existing file is
\* ever replaced, whatever the random suffix and whatever the directory held.
C1_NeverOverwrites ==
    PerFileExport =>
        \A i \in 1..Len(writes) : ~writes[i].existed /\ writes[i].written

\* C6: a per-file export that got past the filters ends having created one
\* new file per record of sqs, all distinct, and the file written for the
\* i-th record holds the i-th record.
C6_OneFilePerRecord ==
    (PerFileExport /\ pc = "done" /\ ~FilterMiss) =>
        /\ Len(writes) = Len(sqs)
        /\ \A i \in 1..Len(writes) : writes[i].written /\ ~writes[i].existed
        /\ Cardinality({writes[i].file : i \in 1..Len(writes)}) = Len(sqs)
        /\ \A i \in 1..Len(writes) : JsonLoad(outdir[writes[i].file]) = PyDict(sqs[i])

(***************************************************************************)
(* Import: the candidates                                                  *)
(***************************************************************************)
\* C2: for a file and for a directory, for object files and for array
\* files, the candidates do_import builds are the records the files hold,
\* flattened into one sequence, each a dict with a name.
C2_FlatCandidates ==
    (pc = "import_loop") =>
        /\ AllDicts(sqs_to_add)
        /\ \A i \in 1..Len(sqs_to_add) : "name" \in DOMAIN sqs_to_add[i].v
        /\ IF opts.import_path = "file"
           THEN Unwrap(sqs_to_add) = RecordsIn(outfile)
           ELSE \E order \in Listings(JsonFiles(outdir)) :
                    Unwrap(sqs_to_add) =
                        Flatten([i \in 1..Len(order) |-> RecordsIn(outdir[order[i]])])


(***************************************************************************)
(* Configuration errors                                                    *)
(***************************************************************************)
\* a required option is missing from the command line
MissingRequiredOption ==
    \/ opts.export = "missing"
    \/ opts.asset_type = "missing"
    \/ ~opts.creds
    \/ IsImport /\ opts.import_path = "none"

\* C7: an invocation that ends on a missing required option (operation,
\* asset type, credentials, or the import path of an import) ends with a
\* non-zero status and an error line, and has made no network call: no
\* connect, no list, no create.
C7_ConfigErrorBeforeNetwork ==
    (pc = "done" /\ MissingRequiredOption) =>
        /\ exit_code # 0
        /\ msgs # <<>>
        /\ calls = <<>>

(***************************************************************************)
(* Export: a filter that matches nothing                                   *)
(***************************************************************************)
\* C9: when the name prefix or the tag list matches nothing, the tool exits
\* non-zero without writing a file, and its error line carries the filter
\* and all names (prefix miss) or all tags (tag miss) of the collection of
\* the service, also when a prefix was given along with the tags.
C9_FilterMissReport ==
    LET all == remote[opts.asset_type]
        by_prefix == SelectSeq(all, LAMBDA sq : StartsWith(sq.name, opts.name_prefix))
        wanted == {tok.text : tok \in Range(opts.tags)} \ {""}
        matching == SelectSeq(by_prefix, LAMBDA sq : wanted = {} \/ TagsOf(sq) \cap wanted # {})
    IN  (IsExport /\ pc \in {"write_single", "write_each", "done"}
            /\ (opts.name_prefix # <<>> \/ wanted # {}) /\ matching = <<>>) =>
            /\ pc = "done"
            /\ exit_code # 0
            /\ writes = <<>>
            /\ Len(msgs) = 1
            /\ IF opts.name_prefix # <<>> /\ by_prefix = <<>>
               THEN /\ msgs[1].kind = "no_prefix"
                    /\ msgs[1].prefix = opts.name_prefix
                    /\ msgs[1].known_names = NamesOf(all)
               ELSE /\ msgs[1].kind = "no_tags"
                    /\ Range(msgs[1].tags) = wanted
                    /\ msgs[1].known_tags = UNION {TagsOf(all[i]) : i \in 1..Len(all)}

(***************************************************************************)
(* Import: names stay unique                                               *)
(***************************************************************************)
\* C10: the names of every collection of the service are unique before,
\* during and after an import: no name is created twice and no name that
\* exists is created again.
C10_NamesStayUnique == \A a \in AssetTypes : UniqueNames(remote[a])


(***************************************************************************)
(* Export: what is written                                                 *)
(***************************************************************************)
\* C8: the records an export hands to the writer are the records of the
\* collection, in collection order, that start with the name prefix (when
\* one is given) and carry at least one requested tag (when tags are
\* given; a record without tags carries none); a single-file export writes
\* them as one list, a per-file export one by one.
C8_ExportedRecords ==
    LET all == remote[opts.asset_type]
        prefix == opts.name_prefix
        wanted == {tok.text : tok \in Range(opts.tags)} \ {""}
        Passes(sq) ==
            /\ Len(prefix) <= Len(sq.name)
            /\ \A i \in 1..Len(prefix) : sq.name[i] = prefix[i]
            /\ wanted # {} => ("tags" \in DOMAIN sq /\ Range(sq.tags) \cap wanted # {})
        expected == SelectSeq(all, Passes)
    IN  IsExport =>
            /\ pc \in {"write_single", "write_each"} => sqs = expected
            /\ \A i \in 1..Len(writes) :
                  writes[i].written =>
                      JsonLoad(writes[i].data) =
                          IF opts.single_file THEN PyList(expected) ELSE PyDict(expected[i])
            /\ (pc = "done" /\ exit_code = 0) =>
                  IF opts.single_file
                  THEN Len(writes) = 1 /\ JsonLoad(outfile) = PyList(expected)
                  ELSE Len(writes) = Len(expected)
            /\ (pc = "done" /\ "get" \in Range(calls) /\ writes = <<>>) => expected = <<>>

C8_Witness ==
    /\ IsExport
    /\ pc = "done"
    /\ exit_code = 0
    /\ opts.name_prefix # <<>>
    /\ Len(tags) > 1
    /\ sqs # <<>>
    /\ Len(sqs) < Len(remote[opts.asset_type])
    /\ \E i \in 1..Len(sqs) : Cardinality(TagsOf(sqs[i]) \cap Range(tags)) = 1

(***************************************************************************)
(* Import: one event per candidate                                         *)
(***************************************************************************)
\* C5: once the existing names are fetched, the candidates are handled in
\* input order and each candidate leaves exactly one line: a skip warning
\* and no creation when its name is among the names fetched at the start,
\* exactly one creation otherwise.  No candidate ends the run: the process
\* ends only after the last candidate, with status 0, having made as many
\* creations and skips together as there are candidates.
C5_OneEventPerCandidate ==
    InImportLoop =>
        LET handled == idx - 1
            made == {k \in 1..handled : msgs[k].kind = "created"}
        IN  /\ Len(msgs) = handled
            /\ \A k \in 1..handled :
                  /\ msgs[k].name = sqs_to_add[k].v.name
                  /\ msgs[k].kind =
                        IF sqs_to_add[k].v.name \in Range(existing_names)
                        THEN "skipped" ELSE "created"
            /\ Len(created) = Cardinality(made)
            /\ Len(calls) = Len(created) + Len(<<"connect", "get">>)
            /\ \A k \in made :
                  created[Cardinality({j \in made : j <= k})].name = sqs_to_add[k].v.name
            /\ pc = "done" =>
                  /\ Len(msgs) = Len(sqs_to_add)
                  /\ exit_code = 0
                  /\ crashed = "none"

(***************************************************************************)
(* Two invocations: export then import, import then import                 *)
(***************************************************************************)
\* the first invocation was a single-file export that wrote its file, and
\* this one imports that file into a collection without names
ImportsTheExport ==
    /\ phase = "second"
    /\ prev.ran
    /\ prev.opts.export = "export"
    /\ prev.opts.single_file
    /\ prev.exit_code = 0
    /\ IsImport
    /\ opts.import_path = "file"
    /\ pc = "done"
    /\ existing_names = <<>>

ImportsAgain ==
    /\ phase = "second"
    /\ prev.ran
    /\ prev.opts.export = "import"
    /\ prev.exit_code = 0
    /\ prev.crashed = "none"
    /\ opts = prev.opts

\* C4: an import repeated after an import that ended normally creates
\* nothing: it raises no exception, every candidate it handles is skipped,
\* and it ends with status 0 after the last candidate.
C4_ImportIdempotent ==
    ImportsAgain =>
        /\ created = <<>>
        /\ "add" \notin Range(calls)
        /\ crashed = "none"
        /\ \A i \in 1..Len(msgs) : msgs[i].kind = "skipped"
        /\ pc = "done" => exit_code = 0 /\ Len(msgs) = Len(sqs_to_add)

C4_Witness ==
    /\ ImportsAgain
    /\ pc = "done"
    /\ Len(msgs) > 1
    /\ \E i \in 1..Len(remote[opts.asset_type]) :
          /\ remote[opts.asset_type][i].uuid = "new"
          /\ remote[opts.asset_type][i].name = msgs[1].name

====
